---------------------------- MODULE Spec2Model ----------------------------
(***************************************************************************)
(* A model of the go-solid example programs: the single-responsibility     *)
(* program (employee / empRepository), the open-closed program (role /     *)
(* employee.getSalary), the substitution program (baseEmployee /           *)
(* printEmployeeInfo), the interface-segregation program (Employee /       *)
(* PaidEmployee / TaskAssigner, ProcessPayroll, AssignWork) and the        *)
(* dependency-inversion program (EmployeeManager over an                   *)
(* EmployeeRepository).                                                    *)
(*                                                                         *)
(* Every program is a Go main package.  A run of a program is modelled as  *)
(* the execution, statement by statement, of the call statements of its    *)
(* main function; the list of statements `prog` is an input, drawn in Init *)
(* from the bounded set of call sequences over the program's values, the   *)
(* main function of the source being one of them.                          *)
(*                                                                         *)
(* Standard output is a sequence of lines.  A line is the sequence of the  *)
(* pieces fmt.Printf / fmt.Println write: the literal pieces of the format *)
(* string and the rendering of each operand (%s is the string itself, %d   *)
(* is the decimal digits, %.2f the digits with two decimals).  The         *)
(* pictographs that open some format strings are written as ASCII names.   *)
(*                                                                         *)
(* A call statement whose argument does not implement the parameter's      *)
(* interface is a compile error: go build rejects the package and nothing  *)
(* of it runs.  The interface-segregation program starts as source and is  *)
(* built first; the other programs' generated statements are all well      *)
(* typed and start built.                                                  *)
(***************************************************************************)
EXTENDS Integers, Sequences, FiniteSets, TLC

VARIABLES
    prog,        \* the call statements of main, in order
    pc,          \* index of the next statement of prog to execute
    status,      \* "source" | "running" | "build_failed"
    stdout,      \* lines written to standard output so far
    calls,       \* trace of the top-level calls executed, with their nested calls
    repository,  \* EmployeeManager.repository of every constructed manager
    buildErrors, \* indices of the statements of prog the type checker rejected
    heap         \* the variables of main whose methods take them by pointer

vars == <<prog, pc, status, stdout, calls, repository, buildErrors, heap>>

(***************************************************************************)
(* Bounds                                                                  *)
(***************************************************************************)
MaxStmts == 3        \* longest generated main of the dependency-inversion program
MaxStmtsLSP == 2     \* longest generated main of the substitution program
MaxStmtsOCP == 3     \* longest generated main of the open-closed program
MaxStmtsISP == 2     \* longest generated main of the interface-segregation program
MaxStmtsSRP == 3     \* longest generated main of the single-responsibility program
IntBits == 14        \* width of int in the model (Go: 32 or 64), two's complement

(***************************************************************************)
(* fmt verbs                                                               *)
(***************************************************************************)
DigitChar(d) == <<"0", "1", "2", "3", "4", "5", "6", "7", "8", "9">>[d + 1]

RECURSIVE Digits(_)
Digits(n) == IF n < 10 THEN <<DigitChar(n)>>
             ELSE Digits(n \div 10) \o <<DigitChar(n % 10)>>

\* %d
FormatInt(n) == IF n < 0 THEN <<"-">> \o Digits(-n) ELSE Digits(n)

\* %.2f of a float64 that is a whole number of hundredths, given in hundredths
FormatFloat2(c) ==
    Digits(c \div 100) \o <<".", DigitChar((c % 100) \div 10), DigitChar(c % 10)>>

\* the range of int, and the value an int operation leaves
MinInt == 0 - 2^(IntBits - 1)

MaxInt == 2^(IntBits - 1) - 1

WrapInt(x) == ((x - MinInt) % 2^IntBits) + MinInt

\* the Go nil error
Nil == "<nil>"

(***************************************************************************)
(* 5.DIP: Employee, EmployeeRepository and its three implementers          *)
(***************************************************************************)
Employee(name, salary) == [Name |-> name, Salary |-> salary]

\* the zero value of Employee
NoEmployee == Employee("", 0)

\* MySQLRepository.Save announcing the wrong database
MySQLRepository_Save_WrongLabel(emp) ==
    [out |-> << <<":floppy_disk: Saving employee '", emp.Name, "' to ", "PostgreSQL", " database">> >>,
     emp |-> NoEmployee, err |-> Nil]

MySQLRepository_Save(emp) ==
    [out |-> << <<":floppy_disk: Saving employee '", emp.Name, "' to ", "MySQL", " database">> >>,
     emp |-> NoEmployee, err |-> Nil]

\* MySQLRepository.GetByName looking the salary up by name
MySQLRepository_GetByName_ByName(name) ==
    [out |-> << <<":mag: Fetching employee '", name, "' from ", "MySQL", " database">> >>,
     emp |-> Employee(name, IF name = "Mohamed" THEN 4500 ELSE 5000), err |-> Nil]

MySQLRepository_GetByName(name) ==
    [out |-> << <<":mag: Fetching employee '", name, "' from ", "MySQL", " database">> >>,
     emp |-> Employee(name, 5000), err |-> Nil]

PostgresRepository_Save(emp) ==
    [out |-> << <<":floppy_disk: Saving employee '", emp.Name, "' to ", "PostgreSQL", " database">> >>,
     emp |-> NoEmployee, err |-> Nil]

\* PostgresRepository.GetByName that reports a missing row
PostgresRepository_GetByName_NotFound(name) ==
    [out |-> << <<":mag: Fetching employee '", name, "' from ", "PostgreSQL", " database">> >>,
     emp |-> NoEmployee, err |-> "employee not found"]

PostgresRepository_GetByName(name) ==
    [out |-> << <<":mag: Fetching employee '", name, "' from ", "PostgreSQL", " database">> >>,
     emp |-> Employee(name, 5000), err |-> Nil]

MongoRepository_Save(emp) ==
    [out |-> << <<":floppy_disk: Saving employee '", emp.Name, "' to ", "MongoDB", " database">> >>,
     emp |-> NoEmployee, err |-> Nil]

\* MongoRepository.GetByName fabricating another salary than its siblings
MongoRepository_GetByName_OtherSalary(name) ==
    [out |-> << <<":mag: Fetching employee '", name, "' from ", "MongoDB", " database">> >>,
     emp |-> Employee(name, 4500), err |-> Nil]

MongoRepository_GetByName(name) ==
    [out |-> << <<":mag: Fetching employee '", name, "' from ", "MongoDB", " database">> >>,
     emp |-> Employee(name, 5000), err |-> Nil]

\* The repositories main constructs.
ProvidedRepositories == {"MySQLRepository", "PostgresRepository", "MongoRepository"}

\* An implementer of EmployeeRepository other than the three provided ones:
\* the interface lets Save and GetByName return a non-nil error, and says
\* nothing else about what an implementer does.
FaultyRepository == "FaultyRepository"

RepositoryErrors == {"connection refused"}

\* what such an implementer may write before it returns: nothing, or a line
FaultyOutputs(name) == {<<>>, << <<"Connecting for '", name, "'">> >>}

\* Dynamic dispatch of EmployeeRepository.Save: the outcomes the call can have.
Save(repo, emp) ==
    CASE repo = "MySQLRepository"    -> {MySQLRepository_Save(emp)}
      [] repo = "PostgresRepository" -> {PostgresRepository_Save(emp)}
      [] repo = "MongoRepository"    -> {MongoRepository_Save(emp)}
      [] repo = FaultyRepository     ->
            {[out |-> o, emp |-> NoEmployee, err |-> e] :
                 o \in FaultyOutputs(emp.Name), e \in {Nil} \cup RepositoryErrors}

\* Dynamic dispatch of EmployeeRepository.GetByName.
GetByName(repo, name) ==
    CASE repo = "MySQLRepository"    -> {MySQLRepository_GetByName(name)}
      [] repo = "PostgresRepository" -> {PostgresRepository_GetByName(name)}
      [] repo = "MongoRepository"    -> {MongoRepository_GetByName(name)}
      [] repo = FaultyRepository     ->
            {[out |-> o, emp |-> Employee(name, sal), err |-> Nil] :
                 o \in FaultyOutputs(name), sal \in {4500, 5000}}
            \cup {[out |-> o, emp |-> NoEmployee, err |-> e] :
                      o \in FaultyOutputs(name), e \in RepositoryErrors}

\* A nested call on the held repository, as recorded in the trace.
RepoCall(repo, fn, emp, name, r) ==
    [recv |-> repo, fn |-> fn, emp |-> emp, name |-> name, ret |-> r.emp, err |-> r.err]

\* A top-level call, as recorded in the trace.
Call(fn, recv, emp, name, sub, out) ==
    [fn |-> fn, recv |-> recv, emp |-> emp, name |-> name, sub |-> sub, out |-> out]

\* AddEmployee of the bad-practice manager, tied to the MySQL database
AddEmployee_Hardwired(em, emp) ==
    LET r == MySQLRepository_Save(emp) IN
        /\ stdout' = stdout \o r.out
        /\ calls' = Append(calls,
               Call("AddEmployee", em, emp, "",
                    <<RepoCall("MySQLRepository", "Save", emp, "", r)>>, r.out))

\* func (em EmployeeManager) AddEmployee(emp Employee)
AddEmployee(em, emp) ==
    \E r \in Save(repository[em], emp) :
        LET out == r.out \o (IF r.err # Nil
                             THEN << <<"Error saving employee:", " ", r.err>> >>
                             ELSE <<>>)
        IN /\ stdout' = stdout \o out
           /\ calls' = Append(calls,
                  Call("AddEmployee", em, emp, "",
                       <<RepoCall(repository[em], "Save", emp, "", r)>>, out))

\* FindEmployee without the return of its error branch
FindEmployee_NoReturn(em, name) ==
    \E r \in GetByName(repository[em], name) :
        LET out == r.out \o (IF r.err # Nil
                             THEN << <<"Error fetching employee:", " ", r.err>> >>
                             ELSE <<>>)
                         \o << <<":white_check_mark: Found employee: ", r.emp.Name,
                                 ", Salary: ">> \o FormatInt(r.emp.Salary) >>
        IN /\ stdout' = stdout \o out
           /\ calls' = Append(calls,
                  Call("FindEmployee", em, NoEmployee, name,
                       <<RepoCall(repository[em], "GetByName", NoEmployee, name, r)>>, out))

\* func (em EmployeeManager) FindEmployee(name string)
FindEmployee(em, name) ==
    \E r \in GetByName(repository[em], name) :
        LET out == r.out \o (IF r.err # Nil
                             THEN << <<"Error fetching employee:", " ", r.err>> >>
                             ELSE << <<":white_check_mark: Found employee: ", r.emp.Name,
                                       ", Salary: ">> \o FormatInt(r.emp.Salary) >>)
        IN /\ stdout' = stdout \o out
           /\ calls' = Append(calls,
                  Call("FindEmployee", em, NoEmployee, name,
                       <<RepoCall(repository[em], "GetByName", NoEmployee, name, r)>>, out))

\* fmt.Println() between the groups of main
Println ==
    /\ stdout' = Append(stdout, <<>>)
    /\ calls' = Append(calls, Call("Println", "", NoEmployee, "", <<>>, << <<>> >>))

\* A call statement of main.
Stmt(op, mgr, emp, name) == [op |-> op, mgr |-> mgr, emp |-> emp, name |-> name]

\* main with the third group pasted from the second and half edited
MainDIP_CopyPaste ==
    << Stmt("AddEmployee",  "manager1", Employee("Mohamed", 5000), ""),
       Stmt("FindEmployee", "manager1", NoEmployee, "Mohamed"),
       Stmt("Println",      "",         NoEmployee, ""),
       Stmt("AddEmployee",  "manager2", Employee("Ahmed", 6000), ""),
       Stmt("FindEmployee", "manager2", NoEmployee, "Ahmed"),
       Stmt("Println",      "",         NoEmployee, ""),
       Stmt("AddEmployee",  "manager2", Employee("Ali", 4500), ""),
       Stmt("FindEmployee", "manager3", NoEmployee, "Ali") >>

\* func main() of the dependency-inversion program
MainDIP ==
    << Stmt("AddEmployee",  "manager1", Employee("Mohamed", 5000), ""),
       Stmt("FindEmployee", "manager1", NoEmployee, "Mohamed"),
       Stmt("Println",      "",         NoEmployee, ""),
       Stmt("AddEmployee",  "manager2", Employee("Ahmed", 6000), ""),
       Stmt("FindEmployee", "manager2", NoEmployee, "Ahmed"),
       Stmt("Println",      "",         NoEmployee, ""),
       Stmt("AddEmployee",  "manager3", Employee("Ali", 4500), ""),
       Stmt("FindEmployee", "manager3", NoEmployee, "Ali") >>

\* The managers main constructs, each on its own repository.
MainManagers ==
    [manager1 |-> "MySQLRepository",
     manager2 |-> "PostgresRepository",
     manager3 |-> "MongoRepository"]

\* Employees and names the generated mains use.
InputEmployees ==
    {Employee("Mohamed", 5000), Employee("Ahmed", 6000), Employee("Mohamed", 4500)}

InputNames == {"Mohamed", "Ahmed"}

StmtsDIP(managers) ==
    {Stmt("AddEmployee", m, e, "") : m \in managers, e \in InputEmployees}
    \cup {Stmt("FindEmployee", m, NoEmployee, n) : m \in managers, n \in InputNames}
    \cup {Stmt("Println", "", NoEmployee, "")}

SeqsUpTo(S, n) == UNION {[1..k -> S] : k \in 0..n}

InitDIP ==
    /\ repository = MainManagers
    /\ buildErrors = {}
    /\ heap = <<>>
    /\ prog \in SeqsUpTo(StmtsDIP(DOMAIN MainManagers), MaxStmts) \cup {MainDIP}
    /\ pc = 1
    /\ status = "running"
    /\ stdout = <<>>
    /\ calls = <<>>

ExecAddEmployee ==
    /\ status = "running"
    /\ pc <= Len(prog)
    /\ prog[pc].op = "AddEmployee"
    /\ AddEmployee(prog[pc].mgr, prog[pc].emp)
    /\ pc' = pc + 1
    /\ UNCHANGED <<prog, status, repository, buildErrors, heap>>

ExecFindEmployee ==
    /\ status = "running"
    /\ pc <= Len(prog)
    /\ prog[pc].op = "FindEmployee"
    /\ FindEmployee(prog[pc].mgr, prog[pc].name)
    /\ pc' = pc + 1
    /\ UNCHANGED <<prog, status, repository, buildErrors, heap>>

ExecPrintln ==
    /\ status = "running"
    /\ pc <= Len(prog)
    /\ prog[pc].op = "Println"
    /\ Println
    /\ pc' = pc + 1
    /\ UNCHANGED <<prog, status, repository, buildErrors, heap>>

NextDIP == ExecAddEmployee \/ ExecFindEmployee \/ ExecPrintln

SpecDIP == InitDIP /\ [][NextDIP]_vars

\* main is one goroutine: while a statement is left, the next one runs.
SpecDIPFair == InitDIP /\ [][NextDIP]_vars /\ WF_vars(NextDIP)

\* A manager whose repository can fail, next to one on a provided repository.
FaultManagers ==
    [manager1 |-> FaultyRepository,
     manager2 |-> "MySQLRepository"]

InitDIPFault ==
    /\ repository = FaultManagers
    /\ buildErrors = {}
    /\ heap = <<>>
    /\ prog \in SeqsUpTo(StmtsDIP(DOMAIN FaultManagers), MaxStmts)
    /\ pc = 1
    /\ status = "running"
    /\ stdout = <<>>
    /\ calls = <<>>

SpecDIPFault == InitDIPFault /\ [][NextDIP]_vars

(***************************************************************************)
(* Properties of the dependency-inversion program                          *)
(***************************************************************************)
IsSaveLine(line) ==
    /\ Len(line) = 5
    /\ line[1] = ":floppy_disk: Saving employee '"
    /\ line[3] = "' to "
    /\ line[5] = " database"

IsFetchLine(line) ==
    /\ Len(line) = 5
    /\ line[1] = ":mag: Fetching employee '"
    /\ line[3] = "' from "
    /\ line[5] = " database"

IsFoundLine(line) ==
    /\ Len(line) >= 4
    /\ line[1] = ":white_check_mark: Found employee: "
    /\ line[3] = ", Salary: "

IsErrorLine(line, what) ==
    /\ Len(line) = 3
    /\ line[1] = what
    /\ line[2] = " "
    /\ line[3] # Nil

\* the label each backend is to announce itself with
LabelOf ==
    [MySQLRepository |-> "MySQL",
     PostgresRepository |-> "PostgreSQL",
     MongoRepository |-> "MongoDB"]

Indices(s) == 1..Len(s)

\* AddEmployee(e) directly followed by FindEmployee(e.Name) on the same manager
AddThenFind(i) ==
    /\ i \in 1..(Len(calls) - 1)
    /\ calls[i].fn = "AddEmployee"
    /\ calls[i + 1].fn = "FindEmployee"
    /\ calls[i + 1].recv = calls[i].recv
    /\ calls[i + 1].name = calls[i].emp.Name

RECURSIVE Flatten(_)
Flatten(outs) == IF outs = <<>> THEN <<>> ELSE Head(outs) \o Flatten(Tail(outs))

OutOf(cs) == Flatten([k \in Indices(cs) |-> cs[k].out])

\* C1: on each of the three backends, AddEmployee(e) followed by
\* FindEmployee(e.Name) writes a save line that carries e.Name and the label
\* of the manager's own backend, and after it a found line that names e.Name;
\* the lines are on standard output in that order.
C1_SaveThenFound ==
    \A i \in Indices(calls) :
        AddThenFind(i) =>
            LET e     == calls[i].emp
                label == LabelOf[repository[calls[i].recv]]
                base  == Len(OutOf(SubSeq(calls, 1, i - 1)))
                nSave == Len(calls[i].out)
                nFind == Len(calls[i + 1].out)
            IN /\ \E k \in 1..nSave :
                      /\ IsSaveLine(stdout[base + k])
                      /\ stdout[base + k][2] = e.Name
                      /\ stdout[base + k][4] = label
               /\ \A k \in 1..nSave :
                      IsSaveLine(stdout[base + k]) => stdout[base + k][4] = label
               /\ \E k \in 1..nFind :
                      /\ IsFoundLine(stdout[base + nSave + k])
                      /\ stdout[base + nSave + k][2] = e.Name

C1_Witness ==
    /\ \A b \in ProvidedRepositories :
          \E i \in Indices(calls) : AddThenFind(i) /\ repository[calls[i].recv] = b
    /\ pc > Len(prog)

\* C2: every FindEmployee(name) on a provided backend reports the queried
\* name with salary 5000, whatever was added before.
C2_FoundSalaryIs5000 ==
    \A i \in Indices(calls) :
        calls[i].fn = "FindEmployee" =>
            /\ Len(calls[i].out) >= 1
            /\ calls[i].out[Len(calls[i].out)] =
                   <<":white_check_mark: Found employee: ", calls[i].name,
                     ", Salary: ", "5", "0", "0", "0">>

\* Mohamed saved with 4500, then found with 5000; and the scenario of the
\* first backend.
C2_Witness ==
    /\ \E i \in Indices(calls) :
          /\ AddThenFind(i)
          /\ calls[i].emp = Employee("Mohamed", 4500)
    /\ \E i \in Indices(calls) :
          /\ calls[i].fn = "FindEmployee"
          /\ calls[i].name = "Ahmed"
          /\ repository[calls[i].recv] = "MySQLRepository"

\* the requests made of manager m, and the lines they wrote
CallsOf(m) == LET ByM(c) == c.recv = m IN SelectSeq(calls, ByM)

Requests(m) ==
    [k \in Indices(CallsOf(m)) |->
        <<CallsOf(m)[k].fn, CallsOf(m)[k].emp, CallsOf(m)[k].name>>]

Output(m) == OutOf(CallsOf(m))

EraseLabel(line) ==
    IF IsSaveLine(line) \/ IsFetchLine(line) THEN [line EXCEPT ![4] = "<backend>"]
    ELSE line

\* C8: two managers on different backends that are asked the same sequence
\* of requests write the same lines, up to the label in the backend's save
\* and fetch lines; the found lines are equal.
C8_SameBehaviourOnEveryBackend ==
    \A m1, m2 \in DOMAIN repository :
        Requests(m1) = Requests(m2) =>
            /\ Len(Output(m1)) = Len(Output(m2))
            /\ \A k \in Indices(Output(m1)) :
                  /\ EraseLabel(Output(m1)[k]) = EraseLabel(Output(m2)[k])
                  /\ IsFoundLine(Output(m1)[k]) => Output(m1)[k] = Output(m2)[k]

C8_Witness ==
    \E m1, m2 \in DOMAIN repository :
        /\ m1 # m2
        /\ Requests(m1) = Requests(m2)
        /\ \E k \in Indices(Output(m1)) : IsFoundLine(Output(m1)[k])
        /\ \E k \in Indices(Output(m1)) : Output(m1)[k] # Output(m2)[k]

\* C9: a manager call makes one call of the held repository; when that call
\* returns an error the manager writes one error line and nothing after it
\* (FindEmployee writes no found line), and control returns to main, which
\* goes on with its next statement.
C9_ErrorPrintedAndAbandoned ==
    /\ status = "running"
    /\ pc = Len(calls) + 1
    /\ \A i \in Indices(calls) :
          LET c == calls[i] IN
          c.fn \in {"AddEmployee", "FindEmployee"} =>
              /\ Len(c.sub) = 1
              /\ c.sub[1].fn = (IF c.fn = "AddEmployee" THEN "Save" ELSE "GetByName")
              /\ c.sub[1].err # Nil =>
                    LET what == IF c.fn = "AddEmployee" THEN "Error saving employee:"
                                ELSE "Error fetching employee:"
                    IN /\ Cardinality({k \in Indices(c.out) : IsErrorLine(c.out[k], what)}) = 1
                       /\ IsErrorLine(c.out[Len(c.out)], what)
                       /\ c.out[Len(c.out)][3] = c.sub[1].err
                       /\ \A k \in Indices(c.out) : ~IsFoundLine(c.out[k])

C9_Witness ==
    /\ \E i \in Indices(calls) : calls[i].fn = "AddEmployee" /\ calls[i].sub[1].err # Nil
    /\ \E i \in Indices(calls) : calls[i].fn = "FindEmployee" /\ calls[i].sub[1].err # Nil
    /\ pc > Len(prog)

\* C11: AddEmployee(e) makes one call, Save(e), and FindEmployee(n) makes one
\* call, GetByName(n), each on the repository the manager holds, which is
\* the one it was constructed with; the backend line of the call carries
\* that repository's label and no other call is made.
C11_DelegatesToHeldRepository ==
    /\ repository = MainManagers
    /\ \A i \in Indices(calls) :
          LET c == calls[i] IN
          /\ c.fn = "AddEmployee" =>
                /\ Len(c.sub) = 1
                /\ c.sub[1].fn = "Save"
                /\ c.sub[1].emp = c.emp
                /\ c.sub[1].recv = MainManagers[c.recv]
                /\ \E k \in Indices(c.out) : IsSaveLine(c.out[k])
                /\ \A k \in Indices(c.out) :
                      /\ ~IsFetchLine(c.out[k])
                      /\ IsSaveLine(c.out[k]) =>
                            c.out[k][4] = LabelOf[MainManagers[c.recv]]
          /\ c.fn = "FindEmployee" =>
                /\ Len(c.sub) = 1
                /\ c.sub[1].fn = "GetByName"
                /\ c.sub[1].name = c.name
                /\ c.sub[1].recv = MainManagers[c.recv]
                /\ \E k \in Indices(c.out) : IsFetchLine(c.out[k])
                /\ \A k \in Indices(c.out) :
                      /\ ~IsSaveLine(c.out[k])
                      /\ IsFetchLine(c.out[k]) =>
                            c.out[k][4] = LabelOf[MainManagers[c.recv]]
          /\ c.fn = "Println" => c.sub = <<>>

\* an AddEmployee and a FindEmployee on managers that do not hold MySQL
C11_Witness ==
    /\ \E i \in Indices(calls) :
          calls[i].fn = "AddEmployee" /\ calls[i].sub[1].recv = "PostgresRepository"
    /\ \E i \in Indices(calls) :
          calls[i].fn = "FindEmployee" /\ calls[i].sub[1].recv = "MongoRepository"

\* the groups of the driver, in order
DriverGroups ==
    << [name |-> "Mohamed", label |-> "MySQL"],
       [name |-> "Ahmed",   label |-> "PostgreSQL"],
       [name |-> "Ali",     label |-> "MongoDB"] >>

\* the k-th line of the driver: save, fetch, found, blank, for each group
IsDriverLine(line, k) ==
    LET g   == DriverGroups[((k - 1) \div 4) + 1]
        pos == (k - 1) % 4
    IN CASE pos = 0 -> IsSaveLine(line) /\ line[2] = g.name /\ line[4] = g.label
         [] pos = 1 -> IsFetchLine(line) /\ line[2] = g.name /\ line[4] = g.label
         [] pos = 2 -> IsFoundLine(line) /\ line[2] = g.name
         [] pos = 3 -> line = <<>>

C15_Order ==
    /\ prog = MainDIP =>
          /\ Len(stdout) <= 11
          /\ \A k \in Indices(stdout) : IsDriverLine(stdout[k], k)
          /\ pc > Len(prog) => Len(stdout) = 11
    /\ \A i \in Indices(calls) :
          calls[i].fn = "FindEmployee" =>
              /\ Len(calls[i].out) = 2
              /\ IsFetchLine(calls[i].out[1])
              /\ IsFoundLine(calls[i].out[2])
    /\ \A k \in Indices(stdout) :
          IsFoundLine(stdout[k]) =>
              /\ k > 1
              /\ IsFetchLine(stdout[k - 1])
              /\ stdout[k - 1][2] = stdout[k][2]

\* C15: the driver writes, for MySQL, PostgreSQL and MongoDB in this order,
\* a save line, a fetch line and a found line for Mohamed, Ahmed and Ali,
\* with one blank line between the groups, and comes to its end with these
\* eleven lines written; in every FindEmployee the fetch line comes right
\* before the found line, and no found line is without it.
C15_DriverOrder ==
    /\ []C15_Order
    /\ (prog = MainDIP) ~> (pc > Len(prog) /\ Len(stdout) = 11)

\* the driver at its end
C15_Witness ==
    /\ prog = MainDIP
    /\ pc > Len(prog)
    /\ Len(stdout) = 11

(***************************************************************************)
(* 3.LSP: baseEmployee and its two implementers                            *)
(***************************************************************************)
fullTimeEmployee(name, salary) ==
    [type |-> "fullTimeEmployee", name |-> name, salary |-> salary]

contractorEmployee(name, hourlyRate, hoursWorked) ==
    [type |-> "contractorEmployee", name |-> name,
     hourlyRate |-> hourlyRate, hoursWorked |-> hoursWorked]

fullTimeEmployee_getName(em) == em.name

fullTimeEmployee_getSalary(em) == em.salary

contractorEmployee_getName(cem) == cem.name

\* contractorEmployee.getSalary adding where it is to multiply
contractorEmployee_getSalary_Sum(cem) == WrapInt(cem.hourlyRate + cem.hoursWorked)

contractorEmployee_getSalary(cem) == WrapInt(cem.hourlyRate * cem.hoursWorked)

\* Dynamic dispatch of baseEmployee.getName and baseEmployee.getSalary.
getName(em) ==
    CASE em.type = "fullTimeEmployee"   -> fullTimeEmployee_getName(em)
      [] em.type = "contractorEmployee" -> contractorEmployee_getName(em)

getSalary(em) ==
    CASE em.type = "fullTimeEmployee"   -> fullTimeEmployee_getSalary(em)
      [] em.type = "contractorEmployee" -> contractorEmployee_getSalary(em)

\* A method call and what it returned, as recorded in the trace.
Invoke(fn, recv, ret) == [fn |-> fn, recv |-> recv, ret |-> ret]

\* printEmployeeInfo treating the contractor apart
printEmployeeInfo_TypeSwitch(em) ==
    LET name   == getName(em)
        salary == getSalary(em)
        out    == IF em.type = "contractorEmployee"
                  THEN << <<"Name: ", name, ", Rate: ">> \o FormatInt(em.hourlyRate),
                          <<"Salary: ">> \o FormatInt(salary) >>
                  ELSE << <<"Name: ", name, ", Salary: ">> \o FormatInt(salary) >>
    IN /\ stdout' = stdout \o out
       /\ calls' = Append(calls,
              [fn |-> "printEmployeeInfo", arg |-> em,
               sub |-> <<Invoke("getName", em, name), Invoke("getSalary", em, salary)>>,
               out |-> out])

\* func printEmployeeInfo(em baseEmployee)
printEmployeeInfo(em) ==
    LET name   == getName(em)
        salary == getSalary(em)
        out    == << <<"Name: ", name, ", Salary: ">> \o FormatInt(salary) >>
    IN /\ stdout' = stdout \o out
       /\ calls' = Append(calls,
              [fn |-> "printEmployeeInfo", arg |-> em,
               sub |-> <<Invoke("getName", em, name), Invoke("getSalary", em, salary)>>,
               out |-> out])

\* func main() of the substitution program
MainLSP ==
    << [op |-> "printEmployeeInfo", em |-> fullTimeEmployee("Mohamed", 5000)],
       [op |-> "printEmployeeInfo", em |-> contractorEmployee("Ahmed", 120, 10)] >>

\* Implementer values the generated mains use: every field is an int.
InputLSP ==
    {fullTimeEmployee(n, sal) : n \in {"Mohamed", "Ahmed"}, sal \in {5000, 0, 0 - 7}}
    \cup {contractorEmployee(n, r, h) :
             n \in {"Ahmed"}, r \in {0, 120, MaxInt, 0 - 3}, h \in {0, 10, 2}}

InitLSP ==
    /\ prog \in SeqsUpTo({[op |-> "printEmployeeInfo", em |-> e] : e \in InputLSP},
                         MaxStmtsLSP) \cup {MainLSP}
    /\ pc = 1
    /\ status = "running"
    /\ stdout = <<>>
    /\ calls = <<>>
    /\ repository = <<>>
    /\ buildErrors = {}
    /\ heap = <<>>

ExecPrintEmployeeInfo ==
    /\ status = "running"
    /\ pc <= Len(prog)
    /\ prog[pc].op = "printEmployeeInfo"
    /\ printEmployeeInfo(prog[pc].em)
    /\ pc' = pc + 1
    /\ UNCHANGED <<prog, status, repository, buildErrors, heap>>

NextLSP == ExecPrintEmployeeInfo

SpecLSP == InitLSP /\ [][NextLSP]_vars

(***************************************************************************)
(* Properties of the substitution program                                  *)
(***************************************************************************)
\* the getSalary calls made so far
SalaryCalls ==
    {c \in {calls[i].sub[k] : i \in Indices(calls), k \in 1..2} : c.fn = "getSalary"}

\* C3: getSalary of a contractorEmployee is the int product of hourlyRate
\* and hoursWorked (an int congruent to the product, and the product itself
\* whenever that is an int; 120 and 10 give 1200), and getSalary of a
\* fullTimeEmployee is the stored salary.
C3_GetSalary ==
    \A c \in SalaryCalls :
        /\ c.recv.type = "contractorEmployee" =>
              LET product == c.recv.hourlyRate * c.recv.hoursWorked IN
              /\ c.ret \in MinInt..MaxInt
              /\ (c.ret - product) % 2^IntBits = 0
              /\ product \in MinInt..MaxInt => c.ret = product
              /\ (c.recv.hourlyRate = 120 /\ c.recv.hoursWorked = 10) => c.ret = 1200
        /\ c.recv.type = "fullTimeEmployee" => c.ret = c.recv.salary

C3_Witness ==
    /\ \E c \in SalaryCalls :
          c.recv.type = "contractorEmployee" /\ c.recv.hourlyRate = 120 /\ c.ret = 1200
    /\ \E c \in SalaryCalls : c.recv.type = "fullTimeEmployee" /\ c.ret = 5000

\* C16: for a contractorEmployee with non-negative hourlyRate and
\* hoursWorked, getSalary is non-negative and is the product of the two as
\* numbers: the multiplication does not wrap around the width of int.
C16_ProductNeverWraps ==
    \A c \in SalaryCalls :
        (/\ c.recv.type = "contractorEmployee"
         /\ c.recv.hourlyRate \in 0..MaxInt
         /\ c.recv.hoursWorked \in 0..MaxInt) =>
            /\ c.ret >= 0
            /\ c.ret = c.recv.hourlyRate * c.recv.hoursWorked

\* the int a decimal rendering denotes
RECURSIVE ParseDigits(_)
ParseDigits(ds) ==
    IF ds = <<>> THEN 0
    ELSE 10 * ParseDigits(SubSeq(ds, 1, Len(ds) - 1))
         + (CHOOSE d \in 0..9 : <<"0", "1", "2", "3", "4", "5", "6", "7", "8", "9">>[d + 1]
                                    = ds[Len(ds)])

IsDigits(ds) ==
    /\ Len(ds) >= 1
    /\ \A k \in Indices(ds) : ds[k] \in {"0", "1", "2", "3", "4", "5", "6", "7", "8", "9"}
    /\ Len(ds) > 1 => ds[1] # "0"

IsDecimal(ts) ==
    IF Len(ts) >= 1 /\ ts[1] = "-" THEN IsDigits(Tail(ts)) /\ Tail(ts) # <<"0">>
    ELSE IsDigits(ts)

ParseInt(ts) == IF ts[1] = "-" THEN 0 - ParseDigits(Tail(ts)) ELSE ParseDigits(ts)

\* "Name: <name>, Salary: <salary>"
IsInfoLine(line, name, salary) ==
    /\ Len(line) >= 4
    /\ line[1] = "Name: "
    /\ line[2] = name
    /\ line[3] = ", Salary: "
    /\ IsDecimal(SubSeq(line, 4, Len(line)))
    /\ ParseInt(SubSeq(line, 4, Len(line))) = salary

\* the steps of a call: the methods it calls, in order, and the number of lines
Steps(c) == <<[k \in Indices(c.sub) |-> c.sub[k].fn], Len(c.out)>>

\* C5: printEmployeeInfo takes the same steps for a fullTimeEmployee and for
\* a contractorEmployee, one getName, one getSalary and one line, and the
\* line is "Name: <name>, Salary: <salary>" with the values the two calls
\* returned; standard output is these lines.
C5_SameStepsSameFormat ==
    /\ \A i \in Indices(calls) :
          LET c == calls[i] IN
          /\ Steps(c) = << <<"getName", "getSalary">>, 1 >>
          /\ c.sub[1].recv = c.arg /\ c.sub[2].recv = c.arg
          /\ IsInfoLine(c.out[1], c.sub[1].ret, c.sub[2].ret)
          /\ stdout[i] = c.out[1]
    /\ Len(stdout) = Len(calls)
    /\ \A i, j \in Indices(calls) :
          /\ Steps(calls[i]) = Steps(calls[j])
          /\ (calls[i].sub[1].ret = calls[j].sub[1].ret
              /\ calls[i].sub[2].ret = calls[j].sub[2].ret) => stdout[i] = stdout[j]

\* both implementers printed, once with equal name and salary
C5_Witness ==
    \E i, j \in Indices(calls) :
        /\ calls[i].arg.type = "fullTimeEmployee"
        /\ calls[j].arg.type = "contractorEmployee"
        /\ stdout[i] = stdout[j]

(***************************************************************************)
(* 2.OCP: role and its two implementers                                    *)
(***************************************************************************)
sswe_getSalary == 5000

\* swe.getSalary paid on the senior tier
swe_getSalary_Senior == sswe_getSalary

swe_getSalary == 3000

\* Dynamic dispatch of role.getSalary.
role_getSalary(r) ==
    CASE r = "swe"  -> swe_getSalary
      [] r = "sswe" -> sswe_getSalary

employee(name, role) == [name |-> name, role |-> role]

\* employee.getSalary paying every role the junior tier
employee_getSalary_Flat(em) == swe_getSalary

\* func (em employee) getSalary() int
employee_getSalary(em) == role_getSalary(em.role)

\* fmt.Println("Salary", em.getSalary())
PrintSalary(em) ==
    LET salary == employee_getSalary(em)
        out    == << <<"Salary", " ">> \o FormatInt(salary) >>
    IN /\ stdout' = stdout \o out
       /\ calls' = Append(calls,
              [fn |-> "fmt.Println", arg |-> em,
               sub |-> <<Invoke("employee.getSalary", em, salary),
                         Invoke("role.getSalary", em.role, role_getSalary(em.role))>>,
               out |-> out])

\* func main() of the open-closed program
MainOCP ==
    << [op |-> "PrintSalary", em |-> employee("Mohamed", "swe")],
       [op |-> "PrintSalary", em |-> employee("Ahmed", "sswe")] >>

InputOCP == {employee(n, r) : n \in {"Mohamed", "Ahmed"}, r \in {"swe", "sswe"}}

InitOCP ==
    /\ prog \in SeqsUpTo({[op |-> "PrintSalary", em |-> e] : e \in InputOCP},
                         MaxStmtsOCP) \cup {MainOCP}
    /\ pc = 1
    /\ status = "running"
    /\ stdout = <<>>
    /\ calls = <<>>
    /\ repository = <<>>
    /\ buildErrors = {}
    /\ heap = <<>>

ExecPrintSalary ==
    /\ status = "running"
    /\ pc <= Len(prog)
    /\ prog[pc].op = "PrintSalary"
    /\ PrintSalary(prog[pc].em)
    /\ pc' = pc + 1
    /\ UNCHANGED <<prog, status, repository, buildErrors, heap>>

NextOCP == ExecPrintSalary

SpecOCP == InitOCP /\ [][NextOCP]_vars

\* The bad-practice variant of the program: employee.role is a string, an
\* employee is employee(name, "SWE"), and getSalary branches on the label.

\* func (em employee) getSalary() int of the bad-practice variant
employee_getSalary_ByLabel(em) ==
    IF em.role = "SWE" THEN 3000
    ELSE IF em.role = "SSWE" THEN 5000
    ELSE 0

\* fmt.Println("Salary", em.getSalary()) of the bad-practice variant
PrintSalaryByLabel(em) ==
    LET salary == employee_getSalary_ByLabel(em)
        out    == << <<"Salary", " ">> \o FormatInt(salary) >>
    IN /\ stdout' = stdout \o out
       /\ calls' = Append(calls,
              [fn |-> "fmt.Println", arg |-> em,
               sub |-> <<Invoke("employee.getSalary", em, salary)>>,
               out |-> out])

\* func main() of the bad-practice variant
MainOCPByLabel ==
    << [op |-> "PrintSalaryByLabel", em |-> employee("Mohamed", "SWE")],
       [op |-> "PrintSalaryByLabel", em |-> employee("Ahmed", "SSWE")] >>

InputOCPByLabel ==
    {employee(n, r) : n \in {"Mohamed", "Ahmed"}, r \in {"SWE", "SSWE", "PM"}}

\* Mains that ask both variants, to set the one against the other.
InitOCPBoth ==
    /\ prog \in SeqsUpTo({[op |-> "PrintSalary", em |-> e] : e \in InputOCP}
                          \cup {[op |-> "PrintSalaryByLabel", em |-> e] :
                                   e \in InputOCPByLabel},
                         MaxStmtsOCP) \cup {MainOCP, MainOCPByLabel}
    /\ pc = 1
    /\ status = "running"
    /\ stdout = <<>>
    /\ calls = <<>>
    /\ repository = <<>>
    /\ buildErrors = {}
    /\ heap = <<>>

ExecPrintSalaryByLabel ==
    /\ status = "running"
    /\ pc <= Len(prog)
    /\ prog[pc].op = "PrintSalaryByLabel"
    /\ PrintSalaryByLabel(prog[pc].em)
    /\ pc' = pc + 1
    /\ UNCHANGED <<prog, status, repository, buildErrors, heap>>

NextOCPBoth == ExecPrintSalary \/ ExecPrintSalaryByLabel

SpecOCPBoth == InitOCPBoth /\ [][NextOCPBoth]_vars

(***************************************************************************)
(* Properties of the open-closed program                                   *)
(***************************************************************************)
\* the label the bad-practice variant gives each role
TierLabel == [swe |-> "SWE", sswe |-> "SSWE"]

\* C14: an employee with role swe gets from the interface-based getSalary
\* what an employee labelled "SWE" gets from the label-based one, 3000, and
\* sswe and "SSWE" both get 5000; the lines printed for them are equal.
C14_AgreesWithLabelVariant ==
    \A i, j \in Indices(calls) :
        (/\ calls[i].arg.role \in DOMAIN TierLabel
         /\ calls[j].arg.role = TierLabel[calls[i].arg.role]) =>
            /\ calls[i].sub[1].ret = calls[j].sub[1].ret
            /\ calls[i].sub[1].ret = (IF calls[i].arg.role = "swe" THEN 3000 ELSE 5000)
            /\ calls[i].out = calls[j].out

\* swe asked next to "SWE", or sswe next to "SSWE"
C14_Witness ==
    /\ \E i, j \in Indices(calls) :
          calls[i].arg.role = "sswe" /\ calls[j].arg.role = "SSWE"
    /\ \E i \in Indices(calls) : calls[i].arg.role \in {"swe", "SWE"}
    /\ pc > Len(prog)

\* C4: getSalary returns the same value at every call: 3000 for swe, 5000
\* for sswe, and employee.getSalary returns what its role's getSalary returns.
C4_GetSalaryDeterministic ==
    /\ \A i \in Indices(calls) :
          LET c == calls[i] IN
          /\ c.sub[1].ret = c.sub[2].ret
          /\ c.sub[2].recv = c.arg.role
          /\ c.arg.role = "swe" => c.sub[1].ret = 3000
          /\ c.arg.role = "sswe" => c.sub[1].ret = 5000
    /\ \A i, j \in Indices(calls) :
          calls[i].arg.role = calls[j].arg.role =>
              calls[i].sub[1].ret = calls[j].sub[1].ret

\* the same employee asked twice, and both roles asked
C4_Witness ==
    /\ \E i, j \in Indices(calls) : i < j /\ calls[i].arg = calls[j].arg
    /\ \E i \in Indices(calls) : calls[i].arg.role = "swe"
    /\ \E i \in Indices(calls) : calls[i].arg.role = "sswe"

(***************************************************************************)
(* 4.ISP: Employee, PaidEmployee, TaskAssigner and their implementers      *)
(***************************************************************************)
\* The methods of each interface (PaidEmployee embeds Employee).
InterfaceMethods ==
    [Employee     |-> {"GetName() string"},
     PaidEmployee |-> {"GetName() string", "CalculateMonthlyPay() float64"},
     TaskAssigner |-> {"AssignTask(string, Employee) error"}]

\* The method sets of the bad-practice variant, where everybody assigns tasks
MethodSet_Fat ==
    [Developer |-> {"GetName() string", "CalculateMonthlyPay() float64",
                    "AssignTask(string, Employee) error"},
     Manager   |-> {"GetName() string", "CalculateMonthlyPay() float64",
                    "AssignTask(string, Employee) error"},
     Intern    |-> {"GetName() string"},
     FaultyAssigner |-> {"AssignTask(string, Employee) error"}]

\* The method set of each struct type.  FaultyAssigner is an implementer of
\* TaskAssigner other than Manager: the interface lets AssignTask return a
\* non-nil error.
MethodSet ==
    [Developer |-> {"GetName() string", "CalculateMonthlyPay() float64"},
     Manager   |-> {"GetName() string", "CalculateMonthlyPay() float64",
                    "AssignTask(string, Employee) error"},
     Intern    |-> {"GetName() string"},
     FaultyAssigner |-> {"AssignTask(string, Employee) error"}]

\* T implements I: the method set of T has every method of I.
Implements(T, I) == InterfaceMethods[I] \subseteq MethodSet[T]

\* Salary is a float64; the model holds it in hundredths.
Developer(name, salary) == [type |-> "Developer", Name |-> name, Salary |-> salary]

Manager(name, salary) == [type |-> "Manager", Name |-> name, Salary |-> salary]

Intern(name) == [type |-> "Intern", Name |-> name]

FaultyAssigner == [type |-> "FaultyAssigner"]

\* GetName of Developer, Manager and Intern
GetName(e) == e.Name

\* CalculateMonthlyPay of Developer and Manager
CalculateMonthlyPay(e) == e.Salary

\* func (m Manager) AssignTask(task string, assignee Employee) error
Manager_AssignTask(m, task, assignee) ==
    [out |-> << <<"Manager ", m.Name, " assigned '", task, "' to ", GetName(assignee)>> >>,
     err |-> Nil]

AssignErrors == {"assignee is on leave"}

\* Dynamic dispatch of TaskAssigner.AssignTask: the outcomes the call can have.
AssignTask(assigner, task, assignee) ==
    CASE assigner.type = "Manager" -> {Manager_AssignTask(assigner, task, assignee)}
      [] assigner.type = "FaultyAssigner" ->
            {[out |-> o, err |-> e] :
                 o \in {<<>>, << <<"Assigning '", task, "'">> >>},
                 e \in {Nil} \cup AssignErrors}

\* func ProcessPayroll(e PaidEmployee)
ProcessPayroll(e) ==
    LET name == GetName(e)
        pay  == CalculateMonthlyPay(e)
        out  == << <<"Paying ", name, ": ">> \o FormatFloat2(pay) \o <<" EUR">> >>
    IN /\ stdout' = stdout \o out
       /\ calls' = Append(calls,
              [fn |-> "ProcessPayroll", args |-> <<e>>,
               sub |-> <<Invoke("GetName", e, name), Invoke("CalculateMonthlyPay", e, pay)>>,
               out |-> out])

\* AssignWork reporting the error of AssignTask
AssignWork_Reporting(assigner, dev, task) ==
    \E r \in AssignTask(assigner, task, dev) :
        LET out == r.out \o (IF r.err # Nil
                             THEN << <<"Error assigning task:", " ", r.err>> >>
                             ELSE <<>>)
        IN /\ stdout' = stdout \o out
           /\ calls' = Append(calls,
                  [fn |-> "AssignWork", args |-> <<assigner, dev, task>>,
                   sub |-> <<[fn |-> "AssignTask", recv |-> assigner, task |-> task,
                              assignee |-> dev, out |-> r.out, err |-> r.err]>>,
                   out |-> out])

\* func AssignWork(assigner TaskAssigner, dev Employee, task string)
AssignWork(assigner, dev, task) ==
    \E r \in AssignTask(assigner, task, dev) :
        /\ stdout' = stdout \o r.out
        /\ calls' = Append(calls,
               [fn |-> "AssignWork", args |-> <<assigner, dev, task>>,
                sub |-> <<[fn |-> "AssignTask", recv |-> assigner, task |-> task,
                           assignee |-> dev, out |-> r.out, err |-> r.err]>>,
                out |-> r.out])

PayrollStmt(e) == [op |-> "ProcessPayroll", e |-> e]

AssignStmt(assigner, dev, task) ==
    [op |-> "AssignWork", assigner |-> assigner, dev |-> dev, task |-> task]

\* func main() of the interface-segregation program
MainISP ==
    << PayrollStmt(Developer("Alice", 300000)),
       PayrollStmt(Manager("Bob", 500000)),
       AssignStmt(Manager("Bob", 500000), Developer("Alice", 300000), "Implement new feature"),
       AssignStmt(Developer("Alice", 300000), Intern("Charlie"), "Review code") >>

\* main of the usage example of the README
ReadmeISP ==
    << PayrollStmt(Developer("Alice", 300000)),
       PayrollStmt(Manager("Bob", 500000)),
       AssignStmt(Manager("Bob", 500000), Developer("Alice", 300000), "Implement feature") >>

\* The type checker on a call statement: each argument implements the
\* interface of its parameter.
WellTyped(stmt) ==
    CASE stmt.op = "ProcessPayroll" -> Implements(stmt.e.type, "PaidEmployee")
      [] stmt.op = "AssignWork"     -> /\ Implements(stmt.assigner.type, "TaskAssigner")
                                       /\ Implements(stmt.dev.type, "Employee")

\* The values main constructs.
MainValues == {Developer("Alice", 300000), Manager("Bob", 500000), Intern("Charlie")}

StmtsISP(values) ==
    {PayrollStmt(e) : e \in values}
    \cup {AssignStmt(a, d, t) : a \in values, d \in values,
                                t \in {"Implement new feature", "Review code"}}

InitISP ==
    /\ prog \in SeqsUpTo(StmtsISP(MainValues), MaxStmtsISP) \cup {MainISP, ReadmeISP}
    /\ pc = 1
    /\ status = "source"
    /\ stdout = <<>>
    /\ calls = <<>>
    /\ repository = <<>>
    /\ buildErrors = {}
    /\ heap = <<>>

\* An assigner that can fail, next to the provided Manager and Developer.
FaultValues == {FaultyAssigner, Manager("Bob", 500000), Developer("Alice", 300000)}

InitISPFault ==
    /\ prog \in SeqsUpTo(StmtsISP(FaultValues), MaxStmtsISP)
    /\ pc = 1
    /\ status = "source"
    /\ stdout = <<>>
    /\ calls = <<>>
    /\ repository = <<>>
    /\ buildErrors = {}
    /\ heap = <<>>

\* go build: type-check every call statement of main
Build ==
    /\ status = "source"
    /\ buildErrors' = {k \in Indices(prog) : ~WellTyped(prog[k])}
    /\ status' = IF buildErrors' = {} THEN "running" ELSE "build_failed"
    /\ UNCHANGED <<prog, pc, stdout, calls, repository, heap>>

ExecProcessPayroll ==
    /\ status = "running"
    /\ pc <= Len(prog)
    /\ prog[pc].op = "ProcessPayroll"
    /\ ProcessPayroll(prog[pc].e)
    /\ pc' = pc + 1
    /\ UNCHANGED <<prog, status, repository, buildErrors, heap>>

ExecAssignWork ==
    /\ status = "running"
    /\ pc <= Len(prog)
    /\ prog[pc].op = "AssignWork"
    /\ AssignWork(prog[pc].assigner, prog[pc].dev, prog[pc].task)
    /\ pc' = pc + 1
    /\ UNCHANGED <<prog, status, repository, buildErrors, heap>>

NextISP == Build \/ ExecProcessPayroll \/ ExecAssignWork

SpecISP == InitISP /\ [][NextISP]_vars

SpecISPFault == InitISPFault /\ [][NextISP]_vars

(***************************************************************************)
(* Properties of the interface-segregation program                         *)
(***************************************************************************)
\* the capabilities each type is to have
Payable == {"Developer", "Manager"}

Assigning == {"Manager"}

Named == {"Developer", "Manager", "Intern"}

\* a call statement that passes values with the capabilities the consumer requires
Matches(stmt) ==
    IF stmt.op = "ProcessPayroll" THEN stmt.e.type \in Payable
    ELSE stmt.assigner.type \in Assigning /\ stmt.dev.type \in Named

\* C6: the type checker rejects a call exactly when a value lacks the
\* capability the consumer requires (ProcessPayroll takes Developer and
\* Manager, not Intern; AssignWork takes Manager as assigner, not Developer
\* or Intern, and any of the three as target); while a call is rejected no
\* consumer body runs, and every call that runs passes matching values.
C6_AcceptedIffCapable ==
    /\ status = "source" => buildErrors = {} /\ calls = <<>> /\ stdout = <<>>
    /\ status # "source" =>
          /\ \A k \in Indices(prog) : k \in buildErrors <=> ~Matches(prog[k])
          /\ status = "build_failed" <=> buildErrors # {}
    /\ buildErrors # {} => calls = <<>> /\ stdout = <<>>
    /\ \A i \in Indices(calls) :
          /\ Matches(prog[i])
          /\ calls[i].fn = prog[i].op
          /\ calls[i].fn = "ProcessPayroll" => calls[i].args = <<prog[i].e>>
          /\ calls[i].fn = "AssignWork" =>
                calls[i].args = <<prog[i].assigner, prog[i].dev, prog[i].task>>
    /\ (status = "running" /\ pc > Len(prog)) => Len(calls) = Len(prog)

\* ProcessPayroll(dev) accepted and ProcessPayroll(intern) rejected in one main
C6_Witness ==
    /\ status = "build_failed"
    /\ \E k \in buildErrors : prog[k].op = "ProcessPayroll" /\ prog[k].e.type = "Intern"
    /\ \E k \in Indices(prog) : k \notin buildErrors /\ prog[k].e.type = "Developer"

\* C7: every call of the driver main passes values with the capabilities
\* the consumer requires, so main builds, and once run to its end has
\* written its two payroll lines and its assignment lines.
C7_DriverRunsAsWritten ==
    prog = MainISP =>
        /\ buildErrors = {}
        /\ status # "build_failed"
        /\ (status = "running" /\ pc > Len(prog)) => Len(stdout) = 4

\* C10: when AssignTask returns an error, AssignWork writes a line about it.
C10_AssignWorkReportsFailure ==
    \A i \in Indices(calls) :
        (calls[i].fn = "AssignWork" /\ calls[i].sub[1].err # Nil) =>
            Len(calls[i].out) > Len(calls[i].sub[1].out)

\* C10, amended: when AssignTask returns an error, AssignWork discards it:
\* it writes nothing of its own, does not call AssignTask again, and control
\* returns to main, which goes on with its next statement.
C10_AssignWorkDiscardsFailure ==
    /\ status = "running" => pc = Len(calls) + 1
    /\ \A i \in Indices(calls) :
          (calls[i].fn = "AssignWork" /\ calls[i].sub[1].err # Nil) =>
              /\ Len(calls[i].sub) = 1
              /\ calls[i].out = calls[i].sub[1].out
              /\ \A k \in Indices(calls[i].out) : calls[i].sub[1].err \notin
                    {calls[i].out[k][j] : j \in Indices(calls[i].out[k])}

C10_Witness ==
    /\ \E i \in Indices(calls) : calls[i].fn = "AssignWork" /\ calls[i].sub[1].err # Nil
    /\ pc > Len(prog)

(***************************************************************************)
(* 1.SRP: employee and empRepository                                       *)
(***************************************************************************)
\* type employee struct of the single-responsibility program
srp_employee(firstName, lastName, email) ==
    [type |-> "employee", firstName |-> firstName, lastName |-> lastName, email |-> email]

\* type empRepository struct
empRepository == [type |-> "empRepository"]

\* The methods take their receiver by pointer: a call leaves a return
\* value, the receiver as the call left it, and the lines it wrote.

\* getFullName normalising the record it reads
employee_getFullName_Normalising(em) ==
    [ret  |-> <<em.firstName, " ", em.lastName>>,
     self |-> [em EXCEPT !.email = ""],
     out  |-> <<>>]

\* func (em *employee) getFullName() string
employee_getFullName(em) ==
    [ret |-> <<em.firstName, " ", em.lastName>>, self |-> em, out |-> <<>>]

\* func (em *employee) getEmail() string
employee_getEmail(em) ==
    [ret |-> <<em.email>>, self |-> em, out |-> <<>>]

\* func (emr *empRepository) saveEmployee()
empRepository_saveEmployee(emr) ==
    [ret |-> <<>>, self |-> emr, out |-> <<>>]

\* a method call of main on the variable obj
CallOnHeap(fn, obj, r) ==
    /\ heap' = [heap EXCEPT ![obj] = r.self]
    /\ stdout' = stdout \o r.out
    /\ calls' = Append(calls,
           [fn |-> fn, recv |-> obj, ret |-> r.ret, sub |-> <<>>, out |-> r.out])

\* func main() of the single-responsibility program
MainSRP ==
    << [op |-> "getFullName",  obj |-> "user"],
       [op |-> "getEmail",     obj |-> "user"],
       [op |-> "saveEmployee", obj |-> "emr"] >>

InputSRP ==
    {srp_employee(f, l, e) : f \in {"Mohamed", "Ahmed"}, l \in {"Habib"},
                             e \in {"mohamed@gmail.com", ""}}

InitSRP ==
    /\ heap \in {[user |-> u, emr |-> empRepository] : u \in InputSRP}
    /\ prog \in SeqsUpTo({MainSRP[k] : k \in 1..3}, MaxStmtsSRP) \cup {MainSRP}
    /\ pc = 1
    /\ status = "running"
    /\ stdout = <<>>
    /\ calls = <<>>
    /\ repository = <<>>
    /\ buildErrors = {}

ExecGetFullName ==
    /\ status = "running"
    /\ pc <= Len(prog)
    /\ prog[pc].op = "getFullName"
    /\ CallOnHeap("getFullName", prog[pc].obj, employee_getFullName(heap[prog[pc].obj]))
    /\ pc' = pc + 1
    /\ UNCHANGED <<prog, status, repository, buildErrors>>

ExecGetEmail ==
    /\ status = "running"
    /\ pc <= Len(prog)
    /\ prog[pc].op = "getEmail"
    /\ CallOnHeap("getEmail", prog[pc].obj, employee_getEmail(heap[prog[pc].obj]))
    /\ pc' = pc + 1
    /\ UNCHANGED <<prog, status, repository, buildErrors>>

ExecSaveEmployee ==
    /\ status = "running"
    /\ pc <= Len(prog)
    /\ prog[pc].op = "saveEmployee"
    /\ CallOnHeap("saveEmployee", prog[pc].obj, empRepository_saveEmployee(heap[prog[pc].obj]))
    /\ pc' = pc + 1
    /\ UNCHANGED <<prog, status, repository, buildErrors>>

NextSRP == ExecGetFullName \/ ExecGetEmail \/ ExecSaveEmployee

SpecSRP == InitSRP /\ [][NextSRP]_vars

(***************************************************************************)
(* The five programs with the implementers the source provides             *)
(***************************************************************************)
InitAll == InitSRP \/ InitOCP \/ InitLSP \/ InitISP \/ InitDIP

NextAll == NextSRP \/ NextOCP \/ NextLSP \/ NextISP \/ NextDIP

SpecAll == InitAll /\ [][NextAll]_vars

\* a line one of the managers writes about a failure
IsAnyErrorLine(line) ==
    /\ Len(line) >= 1
    /\ line[1] \in {"Error saving employee:", "Error fetching employee:"}

\* C12: with the provided implementers every Save, GetByName and AssignTask
\* returns the nil error, and no error line is written.
C12_ProvidedImplementersSucceed ==
    /\ \A i \in Indices(calls) :
          calls[i].fn \in {"AddEmployee", "FindEmployee", "AssignWork"} =>
              \A k \in Indices(calls[i].sub) : calls[i].sub[k].err = Nil
    /\ \A k \in Indices(stdout) : ~IsAnyErrorLine(stdout[k])

\* a manager has called Save and GetByName, and main has run to its end
C12_Witness ==
    /\ \E i \in Indices(calls) : calls[i].fn = "AddEmployee"
    /\ \E i \in Indices(calls) :
          calls[i].fn = "FindEmployee" /\ calls[i].sub[1].recv = "PostgresRepository"
    /\ pc > Len(prog)

\* C13: no step changes a record or an implementer: the variables of main,
\* the values its statements pass and the repository each manager holds keep
\* the values they were constructed with, and a step of the
\* single-responsibility program (getFullName, getEmail, saveEmployee)
\* writes nothing.
C13_NothingChanges ==
    [][/\ heap' = heap
       /\ prog' = prog
       /\ repository' = repository
       /\ (\E i \in Indices(calls') :
              calls'[i].fn \in {"getFullName", "getEmail", "saveEmployee"})
          => stdout' = stdout /\ stdout = <<>>]_vars

\* main of the single-responsibility program run to its end
C13_Witness ==
    /\ prog = MainSRP
    /\ pc > Len(prog)
    /\ Len(calls) = 3
    /\ heap.user.email = "mohamed@gmail.com"

=============================================================================
